---- MODULE Spec2Model ----
(***************************************************************************)
(* The OpenAPI-to-MCP bridge: the tool converter (converter.ts), the       *)
(* operation index and the ListTools / CallTool handlers (handlers.ts),    *)
(* the parser's contract (parser.ts) and main (index.ts), which launches   *)
(* the server and wires them together.                                     *)
(*                                                                         *)
(* Strings that the code inspects character by character (paths, tool      *)
(* names, operation ids, argument values, URLs) are sequences of           *)
(* one-character strings.  An optional value is a sequence of length 0     *)
(* (undefined) or 1 (the value).                                           *)
(***************************************************************************)
EXTENDS Integers, Sequences, FiniteSets, Bags, TLC

\* ------------------------------------------------------------------ bounds

\* Operations per API document.
MaxOps == 2

\* CallTool invocations in flight at once, when the client overlaps them.
MaxCalls == 2

\* createCallToolHandler calls of a program that imports handlers.ts.
MaxHandlers == 2

\* ----------------------------------------------------------------- strings

\* The characters kept by the regular expression /[^a-zA-Z0-9_]/g.
WordChars ==
    { "a", "b", "c", "d", "e", "f", "g", "h", "i", "j", "k", "l", "m",
      "n", "o", "p", "q", "r", "s", "t", "u", "v", "w", "x", "y", "z",
      "A", "B", "C", "D", "E", "F", "G", "H", "I", "J", "K", "L", "M",
      "N", "O", "P", "Q", "R", "S", "T", "U", "V", "W", "X", "Y", "Z",
      "0", "1", "2", "3", "4", "5", "6", "7", "8", "9", "_" }

LowerAlpha ==
    << "a", "b", "c", "d", "e", "f", "g", "h", "i", "j", "k", "l", "m",
       "n", "o", "p", "q", "r", "s", "t", "u", "v", "w", "x", "y", "z" >>

UpperAlpha ==
    << "A", "B", "C", "D", "E", "F", "G", "H", "I", "J", "K", "L", "M",
       "N", "O", "P", "Q", "R", "S", "T", "U", "V", "W", "X", "Y", "Z" >>

\* The position of character c in alphabet, 0 when it is not in it.
AlphaIndex(alphabet, c) ==
    IF \E k \in DOMAIN alphabet : alphabet[k] = c
    THEN CHOOSE k \in DOMAIN alphabet : alphabet[k] = c
    ELSE 0

\* String.prototype.toUpperCase
toUpperCase(s) ==
    [i \in 1..Len(s) |->
        IF AlphaIndex(LowerAlpha, s[i]) # 0
        THEN UpperAlpha[AlphaIndex(LowerAlpha, s[i])] ELSE s[i]]

\* String.prototype.toLowerCase
toLowerCase(s) ==
    [i \in 1..Len(s) |->
        IF AlphaIndex(UpperAlpha, s[i]) # 0
        THEN LowerAlpha[AlphaIndex(UpperAlpha, s[i])] ELSE s[i]]

\* s.replace(/[^a-zA-Z0-9_]/g, '_')
Sanitize(s) ==
    [i \in 1..Len(s) |-> IF s[i] \in WordChars THEN s[i] ELSE "_"]

\* The first position at which pat occurs in s, 0 when it does not occur.
IndexOf(s, pat) ==
    LET hits == { i \in 1..(Len(s) - Len(pat) + 1) :
                    SubSeq(s, i, i + Len(pat) - 1) = pat }
    IN  IF hits = {} THEN 0 ELSE CHOOSE i \in hits : \A j \in hits : i <= j

\* s.replace(pat, rep) with a string pattern: the first occurrence only.
ReplaceFirst(s, pat, rep) ==
    LET i == IndexOf(s, pat)
    IN  IF i = 0 THEN s
        ELSE SubSeq(s, 1, i - 1) \o rep \o SubSeq(s, i + Len(pat), Len(s))

\* s.split(sep) for a one-character separator.
RECURSIVE Split(_, _)
Split(s, sep) ==
    LET i == IndexOf(s, <<sep>>)
    IN  IF i = 0 THEN <<s>>
        ELSE <<SubSeq(s, 1, i - 1)>> \o Split(SubSeq(s, i + 1, Len(s)), sep)

\* parts.filter(p => p): the empty string is falsy.
NonEmptyParts(parts) == SelectSeq(parts, LAMBDA p : p # <<>>)

\* parts.join(sep)
RECURSIVE Join(_, _)
Join(parts, sep) ==
    IF parts = <<>> THEN <<>>
    ELSE IF Len(parts) = 1 THEN parts[1]
    ELSE parts[1] \o sep \o Join(Tail(parts), sep)

\* ------------------------------------------------------------- name rules

\* converter.ts generateToolName; operationId is optional.
generateToolName(method, path, operationId) ==
    IF operationId # <<>> /\ operationId[1] # <<>>
    THEN Sanitize(operationId[1])
    ELSE toLowerCase(method) \o <<"_">>
            \o Join(NonEmptyParts(Split(Sanitize(path), "_")), <<"_">>)

\* A faulty recomputation that falls back only when there is no operationId.
IndexToolNameOfAnyId(method, path, operationId) ==
    IF operationId = <<>>
    THEN toLowerCase(method) \o <<"_">>
            \o Join(NonEmptyParts(Split(Sanitize(path), "_")), <<"_">>)
    ELSE Sanitize(operationId[1])

\* handlers.ts buildOperationMap: the name recomputed for the index.
IndexToolName(method, path, operationId) ==
    LET toolName == IF operationId = <<>> THEN <<>>
                    ELSE <<Sanitize(operationId[1])>>
    IN  IF toolName = <<>> \/ toolName[1] = <<>>
        THEN toLowerCase(method) \o <<"_">>
                \o Join(NonEmptyParts(Split(Sanitize(path), "_")), <<"_">>)
        ELSE toolName[1]

\* ----------------------------------------------------------- JSON values

\* A JSON value: null, a number, a string, a boolean, an array of values or
\* an object (a sequence of <<key, value>> pairs, in insertion order).
Null      == [k |-> "null", n |-> 0, s |-> <<>>, items |-> <<>>]
Num(n)    == [k |-> "num",  n |-> n, s |-> <<>>, items |-> <<>>]
Str(s)    == [k |-> "str",  n |-> 0, s |-> s,    items |-> <<>>]
Bool(b)   == [k |-> "bool", n |-> IF b THEN 1 ELSE 0, s |-> <<>>, items |-> <<>>]
Arr(vs)   == [k |-> "arr",  n |-> 0, s |-> <<>>, items |-> vs]
Obj(kvs)  == [k |-> "obj",  n |-> 0, s |-> <<>>, items |-> kvs]

\* JavaScript truthiness of a JSON value.
Truthy(v) ==
    CASE v.k = "null" -> FALSE
      [] v.k = "num"  -> v.n # 0
      [] v.k = "str"  -> v.s # <<>>
      [] v.k = "bool" -> v.n = 1
      [] OTHER        -> TRUE

Digits == << "0", "1", "2", "3", "4", "5", "6", "7", "8", "9" >>

\* The decimal digits of a natural number.
RECURSIVE Decimal(_)
Decimal(n) ==
    IF n < 10 THEN <<Digits[n + 1]>>
    ELSE Decimal(n \div 10) \o <<Digits[(n % 10) + 1]>>

\* String(value), the JavaScript conversion of a value to a string.
RECURSIVE String(_)
String(v) ==
    CASE v.k = "null" -> <<"n", "u", "l", "l">>
      [] v.k = "num"  -> IF v.n < 0 THEN <<"-">> \o Decimal(0 - v.n) ELSE Decimal(v.n)
      [] v.k = "str"  -> v.s
      [] v.k = "bool" -> IF v.n = 1 THEN <<"t", "r", "u", "e">>
                         ELSE <<"f", "a", "l", "s", "e">>
      [] v.k = "arr"  ->
            \* Array.prototype.toString: null elements print as nothing.
            Join([i \in 1..Len(v.items) |->
                    IF v.items[i].k = "null" THEN <<>> ELSE String(v.items[i])],
                 <<",">>)
      [] OTHER        -> << "[", "o", "b", "j", "e", "c", "t", " ",
                            "O", "b", "j", "e", "c", "t", "]" >>

\* The characters encodeURIComponent leaves as they are.
Unreserved == WordChars \cup {"-", ".", "!", "~", "*", "'", "(", ")"}

\* The percent escape of a character outside Unreserved.
PercentEscape(c) ==
    CASE c = " " -> <<"%", "2", "0">>
      [] c = "," -> <<"%", "2", "C">>
      [] c = "/" -> <<"%", "2", "F">>
      [] c = "[" -> <<"%", "5", "B">>
      [] c = "]" -> <<"%", "5", "D">>
      [] c = "{" -> <<"%", "7", "B">>
      [] c = "}" -> <<"%", "7", "D">>
      [] OTHER   -> <<"%", "x", "x">>

\* encodeURIComponent(s)
RECURSIVE encodeURIComponent(_)
encodeURIComponent(s) ==
    IF s = <<>> THEN <<>>
    ELSE (IF s[1] \in Unreserved THEN <<s[1]>> ELSE PercentEscape(s[1]))
            \o encodeURIComponent(Tail(s))

\* A faulty serialization: String(value).
JSONStringifyAsString(v) == String(v)

\* JSON.stringify(value), without indentation.
RECURSIVE JSONStringify(_)
JSONStringify(v) ==
    CASE v.k = "null" -> <<"n", "u", "l", "l">>
      [] v.k = "num"  -> String(v)
      [] v.k = "bool" -> String(v)
      [] v.k = "str"  -> <<"\"">> \o v.s \o <<"\"">>
      [] v.k = "arr"  ->
            <<"[">> \o Join([i \in 1..Len(v.items) |-> JSONStringify(v.items[i])],
                            <<",">>) \o <<"]">>
      [] OTHER        ->
            <<"{">> \o Join([i \in 1..Len(v.items) |->
                                <<"\"">> \o v.items[i][1] \o <<"\"", ":">>
                                    \o JSONStringify(v.items[i][2])],
                            <<",">>) \o <<"}">>

\* ------------------------------------------------------ schema translator

\* An OpenAPI schema node.  type and format are "" when not given; enum,
\* items, properties, required and default are optional; properties is a
\* sequence of <<name, optional node>> pairs; description is a sequence of
\* words, empty when there is none.
EmptySchema ==
    [ref |-> FALSE, type |-> "", format |-> "", enum |-> <<>>, items |-> <<>>,
     properties |-> <<>>, required |-> <<>>, description |-> <<>>,
     default |-> <<>>]

\* A JSON Schema 7 node, as the translator returns it; {} is EmptyJsonSchema.
EmptyJsonSchema ==
    [type |-> "", contentEncoding |-> "", enum |-> <<>>, items |-> <<>>,
     properties |-> <<>>, required |-> <<>>, description |-> <<>>,
     default |-> <<>>]

BinaryNote == "(Note: Binary content expected as base64 string)"

\* converter.ts openApiSchemaToJsonSchema; argument and result are optional.
RECURSIVE openApiSchemaToJsonSchema(_)
openApiSchemaToJsonSchema(oaSchema) ==
    IF oaSchema = <<>> THEN <<>>
    ELSE IF oaSchema[1].ref THEN <<EmptyJsonSchema>>
    ELSE
      LET oa == oaSchema[1]
          \* properties[propName] = propSchema, for the properties that convert
          RECURSIVE convertProperties(_)
          convertProperties(props) ==
              IF props = <<>> THEN <<>>
              ELSE LET propSchema == openApiSchemaToJsonSchema(props[1][2])
                   IN  (IF propSchema # <<>>
                        THEN << <<props[1][1], propSchema[1]>> >> ELSE <<>>)
                          \o convertProperties(Tail(props))
          typed ==
              CASE oa.type = "integer" -> [EmptyJsonSchema EXCEPT !.type = "integer"]
                [] oa.type = "number"  -> [EmptyJsonSchema EXCEPT !.type = "number"]
                [] oa.type = "boolean" -> [EmptyJsonSchema EXCEPT !.type = "boolean"]
                [] oa.type = "string"  ->
                      [EmptyJsonSchema EXCEPT
                         !.type = "string",
                         !.contentEncoding =
                             IF oa.format = "byte" THEN "base64" ELSE "",
                         !.description =
                             IF oa.format \in {"byte", "binary"}
                             THEN oa.description \o <<BinaryNote>> ELSE <<>>,
                         !.enum = oa.enum]
                [] oa.type = "array"   ->
                      [EmptyJsonSchema EXCEPT
                         !.type = "array",
                         !.items = openApiSchemaToJsonSchema(oa.items)]
                [] oa.type = "object"  ->
                      [EmptyJsonSchema EXCEPT
                         !.type = "object",
                         !.properties =
                             IF oa.properties = <<>> THEN <<>>
                             ELSE <<convertProperties(oa.properties[1])>>,
                         !.required = oa.required]
                [] OTHER -> EmptyJsonSchema
          described ==
              IF oa.description # <<>> /\ typed.description = <<>>
              THEN [typed EXCEPT !.description = oa.description]
              ELSE typed
      IN  <<IF oa.default # <<>> /\ Truthy(oa.default[1])
            THEN [described EXCEPT !.default = oa.default]
            ELSE described>>

\* ------------------------------------------------------------ API document

\* OpenAPIV3.HttpMethods
HttpMethods ==
    { <<"g", "e", "t">>, <<"p", "u", "t">>, <<"p", "o", "s", "t">>,
      <<"d", "e", "l", "e", "t", "e">>, <<"o", "p", "t", "i", "o", "n", "s">>,
      <<"h", "e", "a", "d">>, <<"p", "a", "t", "c", "h">>,
      <<"t", "r", "a", "c", "e">> }

\* The argument name under which the request body is passed.
bodyPropName == <<"r", "e", "q", "u", "e", "s", "t", "B", "o", "d", "y">>

\* The operations of a document in the order of the two nested for-in
\* loops, each with its path and method: the keys that are HTTP methods.
\* (A validated document has no null path item and no null operation, so
\* the two `continue` guards for them are never taken.)
RECURSIVE PathItemOps(_, _)
PathItemOps(path, items) ==
    IF items = <<>> THEN <<>>
    ELSE (IF items[1].method \in HttpMethods
          THEN <<[path |-> path, method |-> items[1].method,
                  operation |-> items[1].operation]>>
          ELSE <<>>) \o PathItemOps(path, Tail(items))

RECURSIVE PathsOps(_)
PathsOps(paths) ==
    IF paths = <<>> THEN <<>>
    ELSE PathItemOps(paths[1].path, paths[1].items) \o PathsOps(Tail(paths))

DocumentOps(apiSpec) == PathsOps(apiSpec.paths)

\* ---------------------------------------------------------- tool converter

\* obj[name] = value on an object kept as a sequence of <<name, value>>
\* pairs: an existing key keeps its place.
SetProperty(props, name, value) ==
    IF \E i \in 1..Len(props) : props[i][1] = name
    THEN [i \in 1..Len(props) |->
            IF props[i][1] = name THEN <<name, value>> ELSE props[i]]
    ELSE Append(props, <<name, value>>)

\* `(in: ${param.in})`
LocationNote(loc) ==
    CASE loc = "path"   -> "(in: path)"
      [] loc = "query"  -> "(in: query)"
      [] loc = "header" -> "(in: header)"
      [] loc = "cookie" -> "(in: cookie)"
      [] OTHER          -> "(in: ?)"

\* A faulty loop that ends at the first parameter whose schema is a
\* reference or is not there.
RECURSIVE AddParametersUntilBad(_, _)
AddParametersUntilBad(schema, params) ==
    IF params = <<>> THEN schema
    ELSE
      LET param == params[1]
          paramSchema == openApiSchemaToJsonSchema(param.schema)
          base == IF param.description # <<>> /\ paramSchema[1].description = <<>>
                  THEN param.description ELSE paramSchema[1].description
          prop == [paramSchema[1] EXCEPT
                      !.description = base \o <<LocationNote(param.in)>>]
      IN  IF param.ref \/ param.schema = <<>> \/ param.schema[1].ref
          THEN schema
          ELSE AddParametersUntilBad(
                  [schema EXCEPT
                      !.properties = SetProperty(@, param.name, prop),
                      !.required = IF param.required
                                   THEN Append(@, param.name) ELSE @],
                  Tail(params))

\* converter.ts convertOpenAPIToMcTools, the loop over operation.parameters:
\* schema is the input schema so far.
RECURSIVE AddParameters(_, _)
AddParameters(schema, params) ==
    IF params = <<>> THEN schema
    ELSE
      LET param == params[1]
          paramSchema == openApiSchemaToJsonSchema(param.schema)
          base == IF param.description # <<>> /\ paramSchema[1].description = <<>>
                  THEN param.description ELSE paramSchema[1].description
          prop == [paramSchema[1] EXCEPT
                      !.description = base \o <<LocationNote(param.in)>>]
      IN  IF param.ref \/ paramSchema = <<>>
          THEN AddParameters(schema, Tail(params))
          ELSE AddParameters(
                  [schema EXCEPT
                      !.properties = SetProperty(@, param.name, prop),
                      !.required = IF param.required
                                   THEN Append(@, param.name) ELSE @],
                  Tail(params))

DefaultBodyNote == "The request body (JSON)"

\* content?.['application/json'], optional
JsonContent(requestBody) ==
    IF "application/json" \in DOMAIN requestBody.content
    THEN <<requestBody.content["application/json"]>> ELSE <<>>

\* convertOpenAPIToMcTools, the request body step.
AddRequestBody(schema, requestBody) ==
    IF requestBody = <<>> \/ requestBody[1].ref THEN schema
    ELSE
      LET jsonContent == JsonContent(requestBody[1])
          requestBodySchema ==
              IF jsonContent = <<>> THEN <<>>
              ELSE openApiSchemaToJsonSchema(jsonContent[1].schema)
          prop == IF requestBodySchema[1].description # <<>>
                  THEN requestBodySchema[1]
                  ELSE [requestBodySchema[1] EXCEPT
                          !.description =
                              IF requestBody[1].description # <<>>
                              THEN requestBody[1].description
                              ELSE <<DefaultBodyNote>>]
      IN  IF requestBodySchema = <<>> THEN schema
          ELSE [schema EXCEPT
                  !.properties = SetProperty(@, bodyPropName, prop),
                  !.required = IF requestBody[1].required
                               THEN Append(@, bodyPropName) ELSE @]

\* The Tool of one operation.  The required list is optional in the result:
\* an empty one is deleted.
ToolOf(path, method, operation) ==
    LET filled == AddRequestBody(
                      AddParameters([properties |-> <<>>, required |-> <<>>],
                                    operation.parameters),
                      operation.requestBody)
    IN  [name |-> generateToolName(method, path, operation.operationId),
         description |->
            IF operation.summary # <<>>
            THEN [text |-> operation.summary, method |-> <<>>, path |-> <<>>]
            ELSE IF operation.description # <<>>
            THEN [text |-> operation.description, method |-> <<>>, path |-> <<>>]
            ELSE [text |-> <<"Perform", "on">>, method |-> toUpperCase(method),
                  path |-> path],
         inputSchema |->
            [type |-> "object",
             properties |-> filled.properties,
             required |-> IF filled.required = <<>> THEN <<>>
                          ELSE <<filled.required>>]]

\* converter.ts convertOpenAPIToMcTools: one tool pushed per operation.
convertOpenAPIToMcTools(apiSpec) ==
    LET ops == DocumentOps(apiSpec)
    IN  [i \in 1..Len(ops) |-> ToolOf(ops[i].path, ops[i].method, ops[i].operation)]

\* -------------------------------------------------------- operation index

\* new Map(tools.map(t => [t.name, t])).get(name): the last tool of that
\* name, optional.
toolMapByName(tools, name) ==
    LET hits == { i \in 1..Len(tools) : tools[i].name = name }
    IN  IF hits = {} THEN <<>>
        ELSE <<tools[CHOOSE i \in hits : \A j \in hits : j <= i]>>

\* handlers.ts buildOperationMap: a Map as a function from its keys; a later
\* map.set of a key replaces the entry.
buildOperationMap(apiSpec, tools) ==
    LET ops == DocumentOps(apiSpec)
        nameOf(i) == IndexToolName(ops[i].method, ops[i].path,
                                   ops[i].operation.operationId)
        setters == { i \in 1..Len(ops) : toolMapByName(tools, nameOf(i)) # <<>> }
        last(n) == CHOOSE i \in setters :
                      /\ nameOf(i) = n
                      /\ \A j \in setters : nameOf(j) = n => j <= i
    IN  [n \in { nameOf(i) : i \in setters } |->
            [path |-> ops[last(n)].path,
             method |-> ops[last(n)].method,
             operation |-> ops[last(n)].operation,
             toolDefinition |-> toolMapByName(tools, n)[1]]]

\* --------------------------------------------------------- CallTool handler

\* new McpError(code, message): about is the message template, name the
\* parameter the message quotes (empty when it quotes none).
McpError(code, about, name) == [code |-> code, about |-> about, name |-> name]

AcceptName      == <<"a", "c", "c", "e", "p", "t">>
ContentTypeName == <<"c", "o", "n", "t", "e", "n", "t", "-", "t", "y", "p", "e">>
ApplicationJson ==
    << "a", "p", "p", "l", "i", "c", "a", "t", "i", "o", "n", "/",
       "j", "s", "o", "n" >>

\* Headers.prototype.set: header names are case-insensitive.
HeadersSet(headers, name, value) == SetProperty(headers, toLowerCase(name), value)

\* URLSearchParams.prototype.set: the first entry of that name takes the
\* value and the others go; appended when there is none.
QuerySet(query, name, value) ==
    LET hits == { i \in 1..Len(query) : query[i][1] = name }
        first == CHOOSE i \in hits : \A j \in hits : i <= j
        kept == { i \in 1..Len(query) : i \notin hits \/ i = first }
        RECURSIVE pick(_)
        pick(i) == IF i > Len(query) THEN <<>>
                   ELSE (IF i \in kept
                         THEN <<IF i = first THEN <<name, value>> ELSE query[i]>>
                         ELSE <<>>) \o pick(i + 1)
    IN  IF hits = {} THEN Append(query, <<name, value>>) ELSE pick(1)

\* A faulty check that looks at path parameters only.
MissingRequiredInPathOnly(param, argValue) ==
    param.required /\ argValue = <<>> /\ param.in = "path"

\* param.required && argValue === undefined
MissingRequired(param, argValue) == param.required /\ argValue = <<>>

\* args[key], optional: undefined when the bag has no such key.
ArgValue(args, key) == IF key \in DOMAIN args THEN <<args[key]>> ELSE <<>>

\* The handler's loop over operation.parameters.  acc holds processedPath,
\* queryParams, headers, body and the error thrown, if any.
RECURSIVE ProcessParameters(_, _, _)
ProcessParameters(acc, params, args) ==
    IF params = <<>> \/ acc.error # <<>> THEN acc
    ELSE
      LET param == params[1]
          argValue == ArgValue(args, param.name)
          text == String(argValue[1])
          placed ==
            CASE param.in = "path" ->
                   [acc EXCEPT !.path =
                       ReplaceFirst(@, <<"{">> \o param.name \o <<"}">>,
                                    encodeURIComponent(text))]
              [] param.in = "query" ->
                   [acc EXCEPT !.query =
                       IF argValue[1].k = "arr"
                       THEN @ \o [i \in 1..Len(argValue[1].items) |->
                                    <<param.name, String(argValue[1].items[i])>>]
                       ELSE QuerySet(@, param.name, text)]
              [] param.in = "header" ->
                   [acc EXCEPT !.headers = HeadersSet(@, param.name, text)]
              [] OTHER -> acc
      IN  IF param.ref THEN ProcessParameters(acc, Tail(params), args)
          ELSE IF MissingRequired(param, argValue)
          THEN [acc EXCEPT !.error =
                  <<McpError("InvalidParams", "Missing required parameter",
                             param.name)>>]
          ELSE IF argValue = <<>> THEN ProcessParameters(acc, Tail(params), args)
          ELSE ProcessParameters(placed, Tail(params), args)

\* The handler's request body step.  JSON.stringify does not throw on a
\* JSON value, so its catch branch is never taken.
ProcessRequestBody(acc, requestBody, args) ==
    IF acc.error # <<>> \/ requestBody = <<>> THEN acc
    ELSE IF requestBody[1].ref THEN acc
    ELSE
      LET requestBodyArg == ArgValue(args, bodyPropName)
      IN  IF requestBody[1].required /\ requestBodyArg = <<>>
          THEN [acc EXCEPT !.error =
                  <<McpError("InvalidParams", "Missing required requestBody",
                             <<>>)>>]
          ELSE IF requestBodyArg = <<>> THEN acc
          ELSE IF JsonContent(requestBody[1]) # <<>>
          THEN [acc EXCEPT
                  !.headers = HeadersSet(@, ContentTypeName, ApplicationJson),
                  !.body = <<JSONStringify(requestBodyArg[1])>>]
          ELSE [acc EXCEPT !.error =
                  <<McpError("InvalidParams",
                             "Unsupported request body content type", <<>>)>>]

\* A faulty lookup that falls back to some entry of the index.
MapGetOrAny(map, toolName) ==
    IF toolName \in DOMAIN map THEN <<map[toolName]>>
    ELSE IF DOMAIN map # {} THEN <<map[CHOOSE n \in DOMAIN map : TRUE]>>
    ELSE <<>>

\* operationMap.get(toolName), optional.
MapGet(map, toolName) ==
    IF toolName \in DOMAIN map THEN <<map[toolName]>> ELSE <<>>

\* The handler up to its first await: the error it throws, or the request it
\* hands to fetch.
PrepareRequest(map, toolName, args) ==
    LET mapping == MapGet(map, toolName)
        start == [path |-> mapping[1].path, query |-> <<>>,
                  headers |-> << <<AcceptName, ApplicationJson>> >>,
                  body |-> <<>>, error |-> <<>>]
        done == ProcessRequestBody(
                    ProcessParameters(start, mapping[1].operation.parameters, args),
                    mapping[1].operation.requestBody, args)
    IN  IF mapping = <<>>
        THEN [error |-> <<McpError("MethodNotFound", "Tool not found", <<>>)>>,
              request |-> <<>>]
        ELSE IF done.error # <<>>
        THEN [error |-> done.error, request |-> <<>>]
        ELSE [error |-> <<>>,
              request |-> <<[method |-> toUpperCase(mapping[1].method),
                             path |-> done.path, query |-> done.query,
                             headers |-> done.headers, body |-> done.body]>>]

\* response.ok
ResponseOk(status) == status >= 200 /\ status <= 299

\* ------------------------------------------------------------------ launch

\* path.extname(p): from the last dot of the path on, empty without one.
extname(p) ==
    LET dots == { i \in 1..Len(p) : p[i] = "." }
    IN  IF dots = {} THEN <<>>
        ELSE SubSeq(p, CHOOSE i \in dots : \A j \in dots : j <= i, Len(p))

\* The extensions parseOpenAPISpec reads.
SpecExtensions ==
    { <<".", "j", "s", "o", "n">>, <<".", "y", "a", "m", "l">>,
      <<".", "y", "m", "l">> }

\* parseOpenAPISpec(filePath), optional: the dereferenced document, or
\* nothing when it throws (unreadable file, unsupported extension, content
\* that does not validate, a document that is not OpenAPI 3).
parseOpenAPISpec(filePath, file) ==
    IF /\ file.exists
       /\ toLowerCase(extname(filePath)) \in SpecExtensions
       /\ file.kind = "openapi3"
    THEN file.document ELSE <<>>

\* The characters of a URL scheme after its first letter.
SchemeChars ==
    { LowerAlpha[i] : i \in DOMAIN LowerAlpha }
        \cup { UpperAlpha[i] : i \in DOMAIN UpperAlpha }
        \cup { Digits[i] : i \in DOMAIN Digits } \cup {"+", "-", "."}

\* The schemes whose URLs need a host.
HostSchemes ==
    { <<"h", "t", "t", "p">>, <<"h", "t", "t", "p", "s">>,
      <<"w", "s">>, <<"w", "s", "s">>, <<"f", "t", "p">> }

\* s without its leading slashes.
RECURSIVE StripSlashes(_)
StripSlashes(s) ==
    IF s # <<>> /\ s[1] \in {"/", "\\"} THEN StripSlashes(Tail(s)) ELSE s

\* new URL(s) does not throw: s starts with a scheme and a colon, and a
\* scheme that needs a host is followed by one.
URLParses(s) ==
    LET colon == IndexOf(s, <<":">>)
        scheme == toLowerCase(SubSeq(s, 1, colon - 1))
        rest == StripSlashes(SubSeq(s, colon + 1, Len(s)))
    IN  /\ colon > 1
        /\ AlphaIndex(LowerAlpha, scheme[1]) # 0
        /\ \A i \in 1..Len(scheme) : scheme[i] \in SchemeChars
        /\ scheme \in HostSchemes => rest # <<>> /\ rest[1] \notin {":", "?", "#"}

\* main: the base URL to use, optional: the argument when it is given and
\* not empty, else the url of the document's first server without its
\* trailing slash, else none.
resolveBaseUrl(baseUrlArg, servers) ==
    IF baseUrlArg # <<>> /\ baseUrlArg[1] # <<>> THEN baseUrlArg
    ELSE IF Len(servers) > 0 /\ servers[1].url # <<>>
    THEN <<IF servers[1].url[Len(servers[1].url)] = "/"
           THEN SubSeq(servers[1].url, 1, Len(servers[1].url) - 1)
           ELSE servers[1].url>>
    ELSE <<>>

\* ------------------------------------------------------------------ inputs

IntegerSchema == [EmptySchema EXCEPT !.type = "integer"]
StringSchema  == [EmptySchema EXCEPT !.type = "string"]
ArraySchema   == [EmptySchema EXCEPT !.type = "array", !.items = <<StringSchema>>]
ObjectSchema  ==
    [EmptySchema EXCEPT !.type = "object",
                        !.properties = << << <<<<"n">>, <<StringSchema>>>> >> >>]

Parameter(name, loc, required, schema) ==
    [ref |-> FALSE, name |-> name, in |-> loc, required |-> required,
     schema |-> schema, description |-> <<>>]

RequestBody(required, content) ==
    [ref |-> FALSE, required |-> required, description |-> <<>>,
     content |-> content]

JsonBody  == [t \in {"application/json"} |-> [schema |-> <<ObjectSchema>>]]
PlainBody == [t \in {"text/plain"} |-> [schema |-> <<StringSchema>>]]

Operation(operationId, parameters, requestBody) ==
    [operationId |-> operationId, summary |-> <<>>, description |-> <<>>,
     parameters |-> parameters, requestBody |-> requestBody]

Get  == <<"g", "e", "t">>
Post == <<"p", "o", "s", "t">>
Put  == <<"p", "u", "t">>

PathP == <<"/", "p", "/", "{", "i", "}">>
PathQ == <<"/", "q">>

\* The operations documents are made of: a path parameter and a query
\* parameter of one name; two required parameters, under an operationId
\* that sanitizes to the name of the first; a cookie parameter and an
\* optional JSON body, under no operationId; a required body that is not
\* JSON, under an empty operationId; a required parameter with no schema and
\* a required JSON body.
CandidateOps ==
    { [path |-> PathP, method |-> Get,
       operation |-> Operation(<< <<"a", "-", "b">> >>,
            << Parameter(<<"i">>, "path", TRUE, <<IntegerSchema>>),
               Parameter(<<"i">>, "query", FALSE, <<StringSchema>>) >>,
            <<>>)],
      [path |-> PathQ, method |-> Get,
       operation |-> Operation(<< <<"a", "_", "b">> >>,
            << Parameter(<<"k">>, "query", TRUE, <<ArraySchema>>),
               Parameter(<<"h">>, "header", TRUE, <<StringSchema>>) >>,
            <<>>)],
      [path |-> PathQ, method |-> Post,
       operation |-> Operation(<<>>,
            << Parameter(<<"c">>, "cookie", FALSE, <<StringSchema>>) >>,
            <<RequestBody(FALSE, JsonBody)>>)],
      [path |-> PathQ, method |-> Put,
       operation |-> Operation(<< <<>> >>, <<>>,
            <<RequestBody(TRUE, PlainBody)>>)],
      [path |-> PathP, method |-> Post,
       operation |-> Operation(<<>>,
            << Parameter(<<"i">>, "path", TRUE, <<>>) >>,
            <<RequestBody(TRUE, JsonBody)>>)] }

\* A JavaScript object lists the methods of one path together.
PathsContiguous(ops) ==
    \A i, j, k \in 1..Len(ops) :
        i < j /\ j < k /\ ops[i].path = ops[k].path => ops[j].path = ops[i].path

\* The paths object with the operations ops, in that order.
RECURSIVE PathsOf(_)
PathsOf(ops) ==
    IF ops = <<>> THEN <<>>
    ELSE LET rest == PathsOf(Tail(ops))
             item == [method |-> ops[1].method, operation |-> ops[1].operation]
         IN  IF rest # <<>> /\ rest[1].path = ops[1].path
             THEN <<[rest[1] EXCEPT !.items = <<item>> \o @]>> \o Tail(rest)
             ELSE <<[path |-> ops[1].path, items |-> <<item>>]>> \o rest

\* The sequences of n operations out of ops.
RECURSIVE OpSeqs(_, _)
OpSeqs(ops, n) ==
    IF n = 0 THEN { <<>> }
    ELSE { Append(s, op) : s \in OpSeqs(ops, n - 1), op \in ops }

\* The documents of at most MaxOps distinct operations out of ops, with a
\* servers list out of serverLists (an absent list is the empty one).
DocumentsOf(ops, serverLists) ==
    { [paths |-> PathsOf(s), servers |-> servers] :
        s \in { s \in UNION { OpSeqs(ops, n) : n \in 0..MaxOps } :
                  /\ \A i, j \in 1..Len(s) : i # j => s[i] # s[j]
                  /\ PathsContiguous(s) },
        servers \in serverLists }

Documents == DocumentsOf(CandidateOps, { <<>> })

\* The operations tried under overlapping invocations: one whose
\* invocations send a request when they supply i, and one whose invocations
\* all fail on the request body.
OverlapOps ==
    { op \in CandidateOps :
        <<op.path, op.method>> \in { <<PathP, Get>>, <<PathQ, Put>> } }

OverlapDocuments == DocumentsOf(OverlapOps, { <<>> })

\* Schema nodes that do not translate as they are: a reference left in the
\* document, a kind the translator does not know, an array with no item
\* schema and one whose items are a reference.
RefSchema  == [EmptySchema EXCEPT !.ref = TRUE]
FileSchema ==
    [EmptySchema EXCEPT !.type = "file", !.description = <<"upload">>,
                        !.default = <<Num(0)>>]
BareArray  == [EmptySchema EXCEPT !.type = "array"]
RefArray   == [EmptySchema EXCEPT !.type = "array", !.items = <<RefSchema>>]

\* Schema nodes with a description and a default: a binary string whose
\* default is the empty string, an integer whose default is 0, a boolean
\* whose default is false, a string whose default is "a".
BinarySchema ==
    [StringSchema EXCEPT !.format = "binary", !.description = <<"blob">>,
                         !.default = <<Str(<<>>)>>]
CountSchema ==
    [IntegerSchema EXCEPT !.description = <<"count">>, !.default = <<Num(0)>>]
FlagSchema ==
    [EmptySchema EXCEPT !.type = "boolean", !.default = <<Bool(FALSE)>>]
NameSchema ==
    [StringSchema EXCEPT !.description = <<"name">>,
                         !.default = <<Str(<<"a">>)>>]

\* An object with a property that translates, a reference, a property with
\* no schema and a property of an unknown kind.
MixedObject ==
    [EmptySchema EXCEPT
        !.type = "object",
        !.properties = << << <<<<"n">>, <<NameSchema>>>>,
                             <<<<"m">>, <<RefSchema>>>>,
                             <<<<"z">>, <<>>>>,
                             <<<<"f">>, <<FileSchema>>>> >> >>,
        !.required = << <<<<"n">>, <<"m">>>> >>]

MixedBody == [t \in {"application/json"} |-> [schema |-> <<MixedObject>>]]
BareJsonBody == [t \in {"application/json"} |-> [schema |-> <<>>]]

\* The operations the catalog is built from: an operationId with no word
\* character, none, an empty one and one with a space; parameters whose
\* schema is good, degraded or not there (a parameter described by content
\* has none); a required JSON body with a schema and one without.
CatalogOps ==
    { [path |-> PathP, method |-> Get,
       operation |-> Operation(<< <<"-">> >>,
            << Parameter(<<"i">>, "path", TRUE, <<CountSchema>>),
               Parameter(<<"k">>, "query", FALSE, <<RefArray>>),
               Parameter(<<"h">>, "header", FALSE, <<BinarySchema>>) >>,
            <<>>)],
      [path |-> PathQ, method |-> Get,
       operation |-> Operation(<<>>,
            << Parameter(<<"k">>, "query", TRUE, <<RefSchema>>),
               Parameter(<<"i">>, "query", TRUE, <<>>),
               Parameter(<<"h">>, "header", FALSE, <<FlagSchema>>) >>,
            <<>>)],
      [path |-> PathQ, method |-> Post,
       operation |-> Operation(<< <<>> >>,
            << Parameter(<<"c">>, "cookie", FALSE, <<FileSchema>>) >>,
            <<RequestBody(TRUE, MixedBody)>>)],
      [path |-> PathQ, method |-> Put,
       operation |-> Operation(<< <<"a", " ", "b">> >>,
            << Parameter(<<"k">>, "query", FALSE, <<BareArray>>) >>,
            <<RequestBody(TRUE, BareJsonBody)>>)] }

CatalogDocuments == DocumentsOf(CatalogOps, { <<>> })

\* The documents a program that creates handlers of its own passes: those
\* of GET /p/{i} and POST /q.
HostOps ==
    { op \in CandidateOps :
        <<op.path, op.method>> \in { <<PathP, Get>>, <<PathQ, Post>> } }

HostDocuments == DocumentsOf(HostOps, { <<>> })

\* The base URLs tried: an absolute one, the same with a trailing slash, a
\* relative one, one of a scheme that comes without a host, and a scheme
\* that needs a host without one.
GoodUrl      == <<"h", "t", "t", "p", ":", "/", "/", "h">>
SlashUrl     == GoodUrl \o <<"/">>
RelativeUrl  == <<"/", "v", "1">>
OpaqueUrl    == <<"h", ":", "1">>
HostlessUrl  == <<"h", "t", "t", "p", ":", "/", "/">>

\* The servers lists a document is tried with.
ServerLists ==
    { <<>>, <<[url |-> SlashUrl]>>, <<[url |-> RelativeUrl]>>,
      <<[url |-> <<"/">>]>>, <<[url |-> <<>>]>>,
      <<[url |-> HostlessUrl], [url |-> GoodUrl]>> }

\* The documents the launch is tried with: one operation at most, every
\* servers list.
StartupOps == { op \in CandidateOps : op.path = PathP /\ op.method = Get }

StartupDocuments ==
    { d \in DocumentsOf(StartupOps, ServerLists) : Len(d.paths) <= 1 }

SpecJson == <<"a", ".", "j", "s", "o", "n">>
SpecYml  == <<"a", ".", "Y", "M", "L">>
SpecTxt  == <<"a", ".", "t", "x", "t">>

\* The command lines tried, process.argv.slice(2).
Argvs ==
    { <<>>, <<SpecJson>>, <<SpecYml>>, <<SpecTxt>>, <<SpecJson, GoodUrl>>,
      <<SpecJson, RelativeUrl>>, <<SpecJson, OpaqueUrl>>,
      <<SpecJson, <<>>>>, <<SpecJson, GoodUrl, GoodUrl>> }

\* The command lines tried once the launch itself is not in question.
ServingArgvs ==
    { <<>>, <<SpecTxt>>, <<SpecJson>>, <<SpecJson, GoodUrl>>,
      <<SpecJson, RelativeUrl>> }

\* What the spec path may hold: nothing, something that does not validate,
\* a Swagger 2 document, or one of the OpenAPI 3 documents docs.
SpecFiles(docs) ==
    { [exists |-> FALSE, kind |-> "invalid", document |-> <<>>],
      [exists |-> TRUE, kind |-> "invalid", document |-> <<>>],
      [exists |-> TRUE, kind |-> "swagger2", document |-> <<>>] }
        \cup { [exists |-> TRUE, kind |-> "openapi3", document |-> <<d>>] :
                 d \in docs }

\* A tool name no document derives.
UnknownName == <<"n", "o">>

\* The values an argument of a given name is tried with.  An explicit null
\* is a value: only a key the bag does not have reads as undefined.
ArgValues(key) ==
    CASE key = <<"i">> -> { Num(3) }
      [] key = <<"k">> -> { Arr(<<Str(<<"x">>), Str(<<"y">>)>>) }
      [] key = <<"h">> -> { Str(<<"u", " ", "v">>), Null }
      [] key = <<"c">> -> { Str(<<"z">>) }
      [] OTHER         -> { Obj(<< <<<<"n">>, Str(<<"a">>)>> >>), Null }

\* The argument names a call of toolName can be read for: the names of the
\* operation's parameters and, when it declares a body, requestBody.
ArgKeys(map, toolName) ==
    IF toolName \notin DOMAIN map THEN {}
    ELSE LET op == map[toolName].operation
         IN  { op.parameters[i].name : i \in 1..Len(op.parameters) }
                \cup (IF op.requestBody # <<>> THEN {bodyPropName} ELSE {})

\* The argument bags over a set of keys.
ArgBags(keys) ==
    UNION { { args \in [ks -> UNION { ArgValues(key) : key \in ks }] :
                \A key \in ks : args[key] \in ArgValues(key) } :
            ks \in SUBSET keys }

\* The HTTP statuses a response is tried with.
Statuses == {200, 299, 300, 404}

\* ------------------------------------------------------------------- state

VARIABLES
    argv,             \* process.argv.slice(2)
    specFile,         \* what the file system holds at the spec path
    apiSpec,          \* main's apiSpec, optional: the parsed document
    effectiveBaseUrl, \* main's effectiveBaseUrl, optional
    mcpTools,         \* main's mcpTools, the list both handlers are created with
    operationMap,     \* handlers.ts operationMap: optional, <<>> is null
    handlers,         \* the CallTool handlers created, with what each was
                      \* created for
    mainPc,           \* where main is; "exited" after process.exit(1)
    calls,            \* the CallTool invocations, a bag of records
    listed            \* the tool lists ListTools has returned

vars == <<argv, specFile, apiSpec, effectiveBaseUrl, mcpTools, operationMap,
          handlers, mainPc, calls, listed>>

\* What main assigns once and no handler assigns.
launch == <<argv, specFile>>

\* The process as main is entered, for a command line and a spec file.
\* (The SIGINT handler, which ends the process from outside, is left out.)
InitWith(argvs, files) ==
    /\ argv \in argvs
    /\ specFile \in files
    /\ apiSpec = <<>>
    /\ effectiveBaseUrl = <<>>
    /\ mcpTools = <<>>
    /\ operationMap = <<>>
    /\ handlers = <<>>
    /\ mainPc = "launch"
    /\ calls = EmptyBag
    /\ listed = {}

Init == InitWith(ServingArgvs, SpecFiles(Documents))

\* ---------------------------------------------------------------- startup

\* main: the argument count and fs.existsSync(openApiSpecPath).
Launch ==
    /\ mainPc = "launch"
    /\ mainPc' = IF Len(argv) < 1 \/ Len(argv) > 2 THEN "exited"
                 ELSE IF ~specFile.exists THEN "exited"
                 ELSE "parse"
    /\ UNCHANGED <<launch, apiSpec, effectiveBaseUrl, mcpTools, operationMap,
                   handlers, calls, listed>>

\* main: const apiSpec = await parseOpenAPISpec(openApiSpecPath); a throw
\* goes to the catch block, which exits.
ParseSpec ==
    /\ mainPc = "parse"
    /\ LET parsed == parseOpenAPISpec(argv[1], specFile)
       IN  /\ apiSpec' = parsed
           /\ mainPc' = IF parsed = <<>> THEN "exited" ELSE "baseUrl"
    /\ UNCHANGED <<launch, effectiveBaseUrl, mcpTools, operationMap, handlers,
                   calls, listed>>

\* A faulty main that takes the base URL as it comes.
ResolveBaseUrlUnchecked ==
    /\ mainPc = "baseUrl"
    /\ LET baseUrlArg == IF Len(argv) >= 2 THEN <<argv[2]>> ELSE <<>>
           resolved == resolveBaseUrl(baseUrlArg, apiSpec[1].servers)
       IN  /\ effectiveBaseUrl' = resolved
           /\ mainPc' = IF resolved = <<>> THEN "exited" ELSE "convert"
    /\ UNCHANGED <<launch, apiSpec, mcpTools, operationMap, handlers, calls,
                   listed>>

\* main: the base URL is determined and validated with new URL(); the
\* process exits when there is none or when it does not parse.
ResolveBaseUrl ==
    /\ mainPc = "baseUrl"
    /\ LET baseUrlArg == IF Len(argv) >= 2 THEN <<argv[2]>> ELSE <<>>
           resolved == resolveBaseUrl(baseUrlArg, apiSpec[1].servers)
       IN  /\ effectiveBaseUrl' = resolved
           /\ mainPc' = IF resolved = <<>> THEN "exited"
                        ELSE IF ~URLParses(resolved[1]) THEN "exited"
                        ELSE "convert"
    /\ UNCHANGED <<launch, apiSpec, mcpTools, operationMap, handlers, calls,
                   listed>>

\* main: const mcpTools = convertOpenAPIToMcTools(apiSpec)
ConvertTools ==
    /\ mainPc = "convert"
    /\ mcpTools' = convertOpenAPIToMcTools(apiSpec[1])
    /\ mainPc' = "register"
    /\ UNCHANGED <<launch, apiSpec, effectiveBaseUrl, operationMap, handlers,
                   calls, listed>>

\* handlers.ts createCallToolHandler, up to the return of the handler: the
\* index is built only while the module-level variable is null.  (The base
\* URL the handler is given only prefixes the URL of its requests.)
createCallToolHandler(spec, tools) ==
    /\ operationMap' = IF operationMap = <<>>
                       THEN <<buildOperationMap(spec, tools)>>
                       ELSE operationMap
    /\ handlers' = Append(handlers, [apiSpec |-> spec, tools |-> tools])

\* main: the two server.setRequestHandler calls.
RegisterHandlers ==
    /\ mainPc = "register"
    /\ createCallToolHandler(apiSpec[1], mcpTools)
    /\ mainPc' = "connect"
    /\ UNCHANGED <<launch, apiSpec, effectiveBaseUrl, mcpTools, calls, listed>>

\* main: await server.connect(transport)
Connect ==
    /\ mainPc = "connect"
    /\ mainPc' = "running"
    /\ UNCHANGED <<launch, apiSpec, effectiveBaseUrl, mcpTools, operationMap,
                   handlers, calls, listed>>

\* ---------------------------------------------------------------- handlers

\* A faulty handler that empties the index (operationMap.clear()).
HandlerFrameClearsIndex ==
    /\ operationMap' = <<[n \in {} |-> n]>>
    /\ UNCHANGED <<launch, apiSpec, effectiveBaseUrl, mcpTools, handlers, mainPc>>

\* What neither handler assigns.
HandlerFrame ==
    UNCHANGED <<launch, apiSpec, effectiveBaseUrl, mcpTools, operationMap,
                handlers, mainPc>>

\* The ListTools handler: return { tools }.
ListTools ==
    /\ mainPc = "running"
    /\ listed' = listed \cup {mcpTools}
    /\ UNCHANGED calls
    /\ HandlerFrame

ThrownError(error) ==
    [kind |-> "error", error |-> <<error>>, isError |-> FALSE, text |-> ""]

ToolResult(isError, text) ==
    [kind |-> "result", error |-> <<>>, isError |-> isError, text |-> text]

\* The invocation as the handler leaves it at its first await, or at the
\* throw before it: the handler reads the module-level operationMap,
\* whichever call created it.  handler is the position of the handler among
\* those created, fetches counts the calls of fetch.
NewCall(handler, toolName, args) ==
    LET prepared == PrepareRequest(operationMap[1], toolName, args)
        entered == [handler |-> handler, toolName |-> toolName, args |-> args,
                    pc |-> "done", request |-> <<>>, fetches |-> 0,
                    status |-> 0, outcome |-> <<>>]
    IN  IF operationMap = <<>>
        THEN [entered EXCEPT !.outcome = <<ThrownError(
                    McpError("Error", "Operation map not initialized", <<>>))>>]
        ELSE IF prepared.error # <<>>
        THEN [entered EXCEPT !.outcome = <<ThrownError(prepared.error[1])>>]
        ELSE [entered EXCEPT !.pc = "fetch", !.request = prepared.request,
                             !.fetches = 1]

\* The tool names a handler is tried with: those of the tool list it was
\* created with, those of the index, and one that is nowhere.
NamesTried(handler) ==
    { handlers[handler].tools[i].name : i \in 1..Len(handlers[handler].tools) }
        \cup DOMAIN operationMap[1] \cup {UnknownName}

\* One of the handlers created, from its entry to await fetch(url,
\* requestOptions), with at most limit invocations outstanding.
Invoke(handler, limit) ==
    /\ BagCardinality(calls) < limit
    /\ \E toolName \in NamesTried(handler) :
         \E args \in ArgBags(ArgKeys(operationMap[1], toolName)) :
            calls' = calls (+) SetToBag({NewCall(handler, toolName, args)})
    /\ UNCHANGED listed
    /\ HandlerFrame

\* The CallTool handler main registered, for a client that keeps at most
\* limit invocations outstanding.
CallTool(limit) ==
    /\ mainPc = "running"
    /\ Invoke(1, limit)

\* One invocation moves from the state c to the state d.
Step(c, d) == calls' = (calls (-) SetToBag({c})) (+) SetToBag({d})

\* A faulty catch block that calls fetch again.
FetchRejectedRetries(c) == [c EXCEPT !.fetches = @ + 1]

\* fetch rejects: the catch block throws McpError(InternalError).
FetchRejected(c) ==
    [c EXCEPT !.pc = "done",
              !.outcome = <<ThrownError(
                    McpError("InternalError", "API request failed", <<>>))>>]

FetchReject ==
    /\ \E c \in BagToSet(calls) :
         /\ c.pc = "fetch"
         /\ Step(c, FetchRejected(c))
    /\ UNCHANGED listed
    /\ HandlerFrame

\* fetch resolves with a response of some status.
FetchResolve ==
    /\ \E c \in BagToSet(calls) :
         /\ c.pc = "fetch"
         /\ \E status \in Statuses :
               Step(c, [c EXCEPT !.pc = "text", !.status = status])
    /\ UNCHANGED listed
    /\ HandlerFrame

\* response.text() resolves: the result with status line, headers and body.
\* The text of the result is kept as its kind only.
TextResolved(c) ==
    [c EXCEPT !.pc = "done",
              !.outcome = <<ToolResult(~ResponseOk(c.status), "body")>>]

TextResolve ==
    /\ \E c \in BagToSet(calls) :
         /\ c.pc = "text"
         /\ Step(c, TextResolved(c))
    /\ UNCHANGED listed
    /\ HandlerFrame

\* A faulty catch block that flags every unreadable body as an error.
TextRejectedAsError(c) ==
    [c EXCEPT !.pc = "done", !.outcome = <<ToolResult(TRUE, "unreadable")>>]

\* A faulty catch block that goes back to waiting for the response.
TextRejectedStartsOver(c) == [c EXCEPT !.pc = "fetch", !.status = 0]

\* A faulty catch block that requests the resource again.
TextRejectedRefetches(c) ==
    [c EXCEPT !.pc = "fetch", !.status = 0, !.fetches = @ + 1]

\* response.text() rejects: the result that says the body could not be read.
TextRejected(c) ==
    [c EXCEPT !.pc = "done",
              !.outcome = <<ToolResult(~ResponseOk(c.status), "unreadable")>>]

TextReject ==
    /\ \E c \in BagToSet(calls) :
         /\ c.pc = "text"
         /\ Step(c, TextRejected(c))
    /\ UNCHANGED listed
    /\ HandlerFrame

\* The promise of a finished invocation settles: the protocol layer takes
\* the result, or the error, and the invocation is over.
Settle ==
    /\ \E c \in BagToSet(calls) :
         /\ c.pc = "done"
         /\ calls' = calls (-) SetToBag({c})
    /\ UNCHANGED listed
    /\ HandlerFrame

\* The client sends one query at a time.
Next ==
    \/ Launch
    \/ ParseSpec
    \/ ResolveBaseUrl
    \/ ConvertTools
    \/ RegisterHandlers
    \/ Connect
    \/ ListTools
    \/ CallTool(1)
    \/ FetchReject
    \/ FetchResolve
    \/ TextResolve
    \/ TextReject
    \/ Settle

Spec == Init /\ [][Next]_vars

\* The client overlaps up to MaxCalls invocations.
InitOverlap == InitWith(ServingArgvs, SpecFiles(OverlapDocuments))

NextOverlap ==
    \/ Launch
    \/ ParseSpec
    \/ ResolveBaseUrl
    \/ ConvertTools
    \/ RegisterHandlers
    \/ Connect
    \/ ListTools
    \/ CallTool(MaxCalls)
    \/ FetchReject
    \/ FetchResolve
    \/ TextResolve
    \/ TextReject
    \/ Settle

SpecOverlap == InitOverlap /\ [][NextOverlap]_vars

\* Every command line, every kind of spec file, every servers list.
InitStartup == InitWith(Argvs, SpecFiles(StartupDocuments))

\* main runs on; a query is neither sent nor answered by necessity.
StartupFairness ==
    WF_vars(Launch \/ ParseSpec \/ ResolveBaseUrl \/ ConvertTools
                \/ RegisterHandlers \/ Connect)

SpecStartup == InitStartup /\ [][Next]_vars /\ StartupFairness

\* The client sends up to MaxCalls invocations in all, overlapping as it
\* likes, and every invocation stays on record once it is over.
NextLive ==
    \/ Launch
    \/ ParseSpec
    \/ ResolveBaseUrl
    \/ ConvertTools
    \/ RegisterHandlers
    \/ Connect
    \/ ListTools
    \/ CallTool(MaxCalls)
    \/ FetchReject
    \/ FetchResolve
    \/ TextResolve
    \/ TextReject

\* The network call returns or fails in the end, and so does the read of
\* the response body.
NetworkFairness ==
    /\ WF_vars(FetchReject \/ FetchResolve)
    /\ WF_vars(TextResolve \/ TextReject)

SpecLive ==
    InitOverlap /\ [][NextLive]_vars /\ StartupFairness /\ NetworkFairness

\* handlers.ts as a program other than main imports it: no handler yet,
\* the module-level operationMap null.
InitHost ==
    /\ argv = <<>>
    /\ specFile = [exists |-> FALSE, kind |-> "invalid", document |-> <<>>]
    /\ apiSpec = <<>>
    /\ effectiveBaseUrl = <<>>
    /\ mcpTools = <<>>
    /\ operationMap = <<>>
    /\ handlers = <<>>
    /\ mainPc = "imported"
    /\ calls = EmptyBag
    /\ listed = {}

\* The program calls createCallToolHandler for a document and its tools.
CreateHandler ==
    /\ mainPc = "imported"
    /\ Len(handlers) < MaxHandlers
    /\ \E doc \in HostDocuments :
          createCallToolHandler(doc, convertOpenAPIToMcTools(doc))
    /\ UNCHANGED <<launch, apiSpec, effectiveBaseUrl, mcpTools, mainPc, calls,
                   listed>>

\* The program calls one of the handlers it has created.
InvokeHandler ==
    /\ mainPc = "imported"
    /\ \E handler \in 1..Len(handlers) : Invoke(handler, 1)

NextHost ==
    \/ CreateHandler
    \/ InvokeHandler
    \/ FetchReject
    \/ FetchResolve
    \/ TextResolve
    \/ TextReject
    \/ Settle

SpecHost == InitHost /\ [][NextHost]_vars

\* Documents with schema nodes of every shape, under a launch that serves.
InitCatalog ==
    InitWith({ <<SpecJson, GoodUrl>>, <<SpecYml, GoodUrl>> },
             SpecFiles(CatalogDocuments))

SpecCatalog == InitCatalog /\ [][Next]_vars

\* ------------------------------------------------------------- properties

\* The index the handler reads, once built.
Index == operationMap[1]

Invocations == BagToSet(calls)

\* The invocation ended with a thrown McpError of that code.
Threw(c, code) ==
    /\ c.pc = "done"
    /\ c.outcome[1].kind = "error"
    /\ c.outcome[1].error[1].code = code

\* The parameters of the operation an invocation resolves to.
ParametersOf(c) == Index[c.toolName].operation.parameters

\* C1: an invocation whose tool name is not a key of the operation index
\* ends with the MethodNotFound error without having called fetch, and
\* every ListTools query, before or after it, returns one and the same list.
C1_UnknownToolNotFound ==
    mainPc = "running" =>
        /\ \A c \in Invocations :
              c.toolName \notin DOMAIN Index =>
                  Threw(c, "MethodNotFound") /\ c.fetches = 0
        /\ \A l1, l2 \in listed : l1 = l2

\* An invocation of an unknown name has failed and a list has been returned.
C1_Witness ==
    /\ mainPc = "running"
    /\ listed # {}
    /\ DOMAIN Index # {}
    /\ \E c \in Invocations :
          c.toolName \notin DOMAIN Index /\ Threw(c, "MethodNotFound")

\* The required parameters of an invocation's operation that its argument
\* bag has no value for, as positions in the parameter list.
MissingAt(c) ==
    { i \in 1..Len(ParametersOf(c)) :
        /\ ~ParametersOf(c)[i].ref
        /\ ParametersOf(c)[i].required
        /\ ParametersOf(c)[i].name \notin DOMAIN c.args }

\* The invocation ended with the missing-parameter error that names name.
ThrewMissing(c, name) ==
    /\ Threw(c, "InvalidParams")
    /\ c.outcome[1].error[1].about = "Missing required parameter"
    /\ c.outcome[1].error[1].name = name

\* The error, if any, of the same invocation with a value added for name.
ErrorWith(c, name, value) ==
    PrepareRequest(Index, c.toolName,
        [key \in DOMAIN c.args \cup {name} |->
            IF key = name THEN value ELSE c.args[key]]).error

\* C2 as claimed: for every required parameter the argument bag has no
\* value for, the invocation fails with InvalidParams and the error names
\* that parameter; with a value added for it, it no longer fails for it.
C2_AsClaimed ==
    mainPc = "running" =>
        \A c \in Invocations :
            c.toolName \in DOMAIN Index =>
                \A i \in MissingAt(c) :
                    LET name == ParametersOf(c)[i].name
                    IN  /\ ThrewMissing(c, name)
                        /\ \A value \in ArgValues(name) :
                              LET e == ErrorWith(c, name, value)
                              IN  e = <<>> \/ e[1].name # name

\* C2 amended: when required parameters are missing, the invocation fails
\* with InvalidParams and the error names the first of them in the order of
\* the operation's parameter list; with a value added for any missing one,
\* the invocation no longer fails for that one.
C2_FirstMissingNamed ==
    mainPc = "running" =>
        \A c \in Invocations :
            c.toolName \in DOMAIN Index /\ MissingAt(c) # {} =>
                LET first == CHOOSE i \in MissingAt(c) :
                                \A j \in MissingAt(c) : i <= j
                IN  /\ ThrewMissing(c, ParametersOf(c)[first].name)
                    /\ c.fetches = 0
                    /\ \A i \in MissingAt(c) :
                          LET name == ParametersOf(c)[i].name
                          IN  \A value \in ArgValues(name) :
                                LET e == ErrorWith(c, name, value)
                                IN  e = <<>> \/ e[1].name # name

\* Two required parameters are missing and the invocation has failed.
C2_Witness ==
    /\ mainPc = "running"
    /\ \E c \in Invocations :
          /\ c.toolName \in DOMAIN Index
          /\ Cardinality(MissingAt(c)) >= 2
          /\ c.pc = "done"

\* The names of the properties of a tool's input schema.
PropertyNames(tool) ==
    { tool.inputSchema.properties[i][1] :
        i \in 1..Len(tool.inputSchema.properties) }

\* The places of the outgoing request that hold the argument called name:
\* the path when a placeholder was replaced by the argument's encoded text,
\* the query string and the headers when they have an entry of that name.
PlacedAt(c, name) ==
    LET request == c.request[1]
    IN  (IF /\ request.path # Index[c.toolName].path
            /\ IndexOf(request.path,
                       encodeURIComponent(String(c.args[name]))) # 0
         THEN {"path"} ELSE {})
        \cup (IF \E j \in 1..Len(request.query) : request.query[j][1] = name
              THEN {"query"} ELSE {})
        \cup (IF \E j \in 1..Len(request.headers) :
                    request.headers[j][1] = toLowerCase(name)
              THEN {"header"} ELSE {})

\* C3 as claimed: for every property of a tool's input schema that comes
\* from a parameter declared in the path, the query or a header, an argument
\* supplied for it is placed in the declared location of the outgoing
\* request and in no other.  (Cookie parameters, which the dispatch step
\* drops by design, are left out of the statement.)
C3_AsClaimed ==
    mainPc = "running" =>
        \A c \in Invocations :
            c.request # <<>> =>
                \A i \in 1..Len(ParametersOf(c)) :
                    LET param == ParametersOf(c)[i]
                    IN  /\ ~param.ref
                        /\ param.name \in PropertyNames(Index[c.toolName].toolDefinition)
                        /\ param.name \in DOMAIN c.args
                        /\ param.in \in {"path", "query", "header"}
                        => PlacedAt(c, param.name) = {param.in}

\* The positions of the operations of the document that no later operation
\* shares its derived name with.
LastOfName(ops) ==
    { i \in 1..Len(ops) :
        \A j \in 1..Len(ops) :
            j > i => generateToolName(ops[j].method, ops[j].path,
                                      ops[j].operation.operationId)
                     # generateToolName(ops[i].method, ops[i].path,
                                        ops[i].operation.operationId) }

\* C4 as claimed: of the operations that derive one tool name, the one
\* encountered last is the one published, so that the names of a list
\* ListTools returns are unique.
C4_AsClaimed ==
    \A l \in listed :
        LET ops == DocumentOps(apiSpec[1])
        IN  /\ \A i, j \in 1..Len(l) : i # j => l[i].name # l[j].name
            /\ { l[i] : i \in 1..Len(l) }
                  = { ToolOf(ops[i].path, ops[i].method, ops[i].operation) :
                        i \in LastOfName(ops) }

\* C5 as claimed: the index has, under the name of every tool of the list,
\* the path, method and operation that tool was derived from (the k-th tool
\* is the one pushed for the k-th operation), and no other key.
C5_AsClaimed ==
    operationMap # <<>> =>
        LET ops == DocumentOps(apiSpec[1])
        IN  /\ \A k \in 1..Len(mcpTools) :
                  /\ mcpTools[k].name \in DOMAIN Index
                  /\ Index[mcpTools[k].name].path = ops[k].path
                  /\ Index[mcpTools[k].name].method = ops[k].method
                  /\ Index[mcpTools[k].name].operation = ops[k].operation
            /\ DOMAIN Index \subseteq { mcpTools[k].name : k \in 1..Len(mcpTools) }

\* C6: an invocation whose fetch resolved ends with a result, not with a
\* thrown error, and the result's isError is true exactly when the status is
\* below 200 or above 299, whether or not the body could be read.
C6_ErrorFlagIffNot2xx ==
    \A c \in Invocations :
        c.pc = "done" /\ c.status # 0 =>
            /\ c.outcome[1].kind = "result"
            /\ c.outcome[1].isError <=> (c.status < 200 \/ c.status > 299)

\* A response of status 299 whose body could not be read: no error flag.
C6_Witness ==
    \E c \in Invocations :
        /\ c.pc = "done"
        /\ c.status = 299
        /\ c.outcome[1].text = "unreadable"
        /\ ~c.outcome[1].isError

\* The request body an invocation's operation declares, optional.
RequestBodyOf(c) == Index[c.toolName].operation.requestBody

BodyAccepted(c) ==
    \/ RequestBodyOf(c) = <<>>
    \/ RequestBodyOf(c)[1].ref
    \/ /\ RequestBodyOf(c)[1].required => bodyPropName \in DOMAIN c.args
       /\ bodyPropName \in DOMAIN c.args
            => "application/json" \in DOMAIN RequestBodyOf(c)[1].content

\* C9: an invocation calls fetch once when its name resolves, no required
\* parameter is missing and the body step succeeds, and never otherwise; an
\* invocation that threw MethodNotFound or InvalidParams has not called it.
C9_OneRequestPerInvocation ==
    mainPc = "running" =>
        \A c \in Invocations :
            /\ c.fetches =
                  IF /\ c.toolName \in DOMAIN Index
                     /\ MissingAt(c) = {}
                     /\ BodyAccepted(c)
                  THEN 1 ELSE 0
            /\ Threw(c, "MethodNotFound") \/ Threw(c, "InvalidParams")
                  => c.fetches = 0 /\ c.request = <<>>

\* An invocation went through the whole exchange, body read failure
\* included, on one call of fetch.
C9_Witness ==
    \E c \in Invocations :
        /\ c.pc = "done"
        /\ c.outcome[1].kind = "result"
        /\ c.outcome[1].text = "unreadable"
        /\ c.fetches = 1

\* The invocation called fetch and ended without a response.
NetworkFailed(c) == c.pc = "done" /\ c.fetches > 0 /\ c.status = 0

\* C7: an invocation whose network call failed ended with the InternalError
\* "API request failed" after a single call of fetch; no invocation calls
\* fetch twice; and with a failed invocation around, the handler still takes
\* a new invocation and every invocation in flight can still move on.
C7_NetworkFailureIsolated ==
    /\ \A c \in Invocations :
          /\ c.fetches <= 1
          /\ NetworkFailed(c) =>
                /\ Threw(c, "InternalError")
                /\ c.outcome[1].error[1].about = "API request failed"
                /\ c.fetches = 1
    /\ (\E c \in Invocations : NetworkFailed(c)) =>
          /\ mainPc = "running"
          /\ BagCardinality(calls) < MaxCalls => ENABLED CallTool(MaxCalls)
          /\ \A d \in Invocations :
                /\ d.pc = "fetch" => ENABLED FetchResolve
                /\ d.pc = "text" => ENABLED TextResolve

\* One invocation failed on the network and another one, alongside it, has
\* its result.
C7_Witness ==
    \E c, d \in Invocations :
        /\ NetworkFailed(c)
        /\ d.pc = "done"
        /\ d.status # 0
        /\ d.outcome[1].kind = "result"

\* C10: once the server runs, no step of any handler, in any interleaving
\* of the invocations in flight, changes the tool list or the index.
C10_SharedStateImmutable ==
    [][mainPc = "running" =>
          mcpTools' = mcpTools /\ operationMap' = operationMap]_vars

\* Two invocations overlap, one waiting for its response and one reading a
\* body.
C10_Witness ==
    /\ mainPc = "running"
    /\ DOMAIN Index # {}
    /\ \E c, d \in Invocations : c.pc = "fetch" /\ d.pc = "text"

\* The base URL the launch comes with, optional: the second argument when
\* it is not empty, else the url of the document's first server.
LaunchBaseUrl ==
    resolveBaseUrl(IF Len(argv) >= 2 THEN <<argv[2]>> ELSE <<>>,
                   specFile.document[1].servers)

\* The spec file holds no valid OpenAPI 3 document, or the launch comes
\* with no base URL, or with one that is no absolute URL.
BadLaunch ==
    \/ ~specFile.exists
    \/ specFile.kind # "openapi3"
    \/ LaunchBaseUrl = <<>>
    \/ ~URLParses(LaunchBaseUrl[1])

\* The handlers are registered, the transport is connected, or a query has
\* been taken.
Serving ==
    \/ mainPc \in {"connect", "running"}
    \/ operationMap # <<>>
    \/ listed # {}
    \/ calls # EmptyBag

\* C11: whenever the handlers are registered, the transport connected or a
\* query served, the document has been parsed out of a valid spec file and
\* the base URL in use is an absolute URL; a launch with an invalid
\* document, or with no base URL or a malformed one, never gets as far as
\* converting, registering, connecting or serving, and the process exits.
C11_StartupOrdering ==
    /\ [](Serving =>
            /\ specFile.exists /\ specFile.kind = "openapi3"
            /\ apiSpec = specFile.document
            /\ effectiveBaseUrl # <<>>
            /\ effectiveBaseUrl = LaunchBaseUrl
            /\ URLParses(effectiveBaseUrl[1]))
    /\ [](BadLaunch =>
            /\ mainPc \in {"launch", "parse", "baseUrl", "exited"}
            /\ ~Serving)
    /\ (BadLaunch ~> mainPc = "exited")

\* The server answers a list query under the url of the document's first
\* server, its trailing slash taken off.
C11_Witness ==
    /\ mainPc = "running"
    /\ Len(argv) = 1
    /\ effectiveBaseUrl = <<GoodUrl>>
    /\ listed # {}

\* ---------------------------------------------------------------- catalog

\* main has built the tool list.
Built == mainPc \in {"register", "connect", "running"}

\* The operations of the parsed document, in the order of the two loops.
Ops == DocumentOps(apiSpec[1])

\* A sequence without its j-th element.
RemoveAt(s, j) == SubSeq(s, 1, j - 1) \o SubSeq(s, j + 1, Len(s))

\* The <<name, value>> pairs of an object other than those of name.
PropsWithout(props, name) == SelectSeq(props, LAMBDA kv : kv[1] # name)

\* The value an object has under name; the object has it.
PropertyOf(props, name) ==
    props[CHOOSE i \in 1..Len(props) : props[i][1] = name][2]

\* The names of the required list of a tool, empty when it has none.
RequiredOf(tool) ==
    IF tool.inputSchema.required = <<>> THEN <<>>
    ELSE tool.inputSchema.required[1]

\* The document that has the one operation op.
SingleDocument(op) == [paths |-> PathsOf(<<op>>), servers |-> <<>>]

\* The parameter positions of an operation whose name no other parameter
\* of it has.
UniqueParams(operation) ==
    { j \in 1..Len(operation.parameters) :
        \A i \in 1..Len(operation.parameters) :
            i # j => operation.parameters[i].name # operation.parameters[j].name }

\* The JSON request body schema of an operation, optional.
JsonBodySchema(operation) ==
    IF operation.requestBody = <<>> \/ operation.requestBody[1].ref THEN <<>>
    ELSE IF JsonContent(operation.requestBody[1]) = <<>> THEN <<>>
    ELSE JsonContent(operation.requestBody[1])[1].schema

\* C12: the tool list has one tool per operation, in order; each tool is
\* the one its operation gives when it is alone in the document; taking a
\* parameter out of an operation changes nothing of the tool but the
\* property and the required entry of that name; a parameter with no schema
\* gets no property and one whose schema is a reference gets the empty
\* schema with the location note; taking a property out of a JSON body
\* object changes no other property of the translated body, whose required
\* list is the source's; and an array whose items are a reference, or not
\* there, is still an array.
C12_DegradeOnlyTheField ==
    Built =>
      /\ Len(mcpTools) = Len(Ops)
      /\ \A k \in 1..Len(Ops) :
            LET op == Ops[k]
                operation == op.operation
                tool == mcpTools[k]
                props == tool.inputSchema.properties
                body == JsonBodySchema(operation)
            IN  /\ <<tool>> = convertOpenAPIToMcTools(SingleDocument(op))
                /\ \A j \in UniqueParams(operation) :
                      LET param == operation.parameters[j]
                          without ==
                              ToolOf(op.path, op.method,
                                     [operation EXCEPT
                                         !.parameters = RemoveAt(@, j)])
                      IN  /\ PropsWithout(props, param.name)
                                = without.inputSchema.properties
                          /\ SelectSeq(RequiredOf(tool),
                                       LAMBDA n : n # param.name)
                                = RequiredOf(without)
                          /\ param.schema = <<>>
                                => param.name \notin PropertyNames(tool)
                          /\ param.schema # <<>> /\ param.schema[1].ref
                                => /\ param.name \in PropertyNames(tool)
                                   /\ PropertyOf(props, param.name)
                                        = [EmptyJsonSchema EXCEPT
                                             !.description =
                                                <<LocationNote(param.in)>>]
                          /\ param.schema # <<>> /\ param.schema[1].type = "array"
                                => /\ param.name \in PropertyNames(tool)
                                   /\ PropertyOf(props, param.name).type = "array"
                                   /\ PropertyOf(props, param.name).items
                                        = IF param.schema[1].items = <<>>
                                          THEN <<>> ELSE <<EmptyJsonSchema>>
                /\ body # <<>> /\ body[1].properties # <<>> =>
                      LET translated == PropertyOf(props, bodyPropName)
                          source == body[1].properties[1]
                      IN  /\ translated.required = body[1].required
                          /\ \A j \in 1..Len(source) :
                                PropsWithout(translated.properties[1], source[j][1])
                                  = openApiSchemaToJsonSchema(
                                       <<[body[1] EXCEPT
                                            !.properties = <<RemoveAt(source, j)>>]>>
                                    )[1].properties[1]

\* The list is built from two operations, one of them with a required
\* parameter whose schema is a reference and one that has no schema, the
\* other with a body object that has a reference among its properties.
C12_Witness ==
    /\ Built
    /\ Len(mcpTools) = 2
    /\ \E k \in 1..Len(Ops) :
          \E i, j \in 1..Len(Ops[k].operation.parameters) :
              /\ Ops[k].operation.parameters[i].schema = <<>>
              /\ Ops[k].operation.parameters[j].schema = <<RefSchema>>
    /\ \E k \in 1..Len(Ops) : JsonBodySchema(Ops[k].operation) = <<MixedObject>>

\* The names an operation marks required: its required parameters and,
\* when its request body has an application/json entry and is required,
\* requestBody.
MarkedRequired(operation) ==
    { operation.parameters[j].name :
        j \in { j \in 1..Len(operation.parameters) :
                  operation.parameters[j].required } }
      \cup (IF /\ operation.requestBody # <<>>
                /\ ~operation.requestBody[1].ref
                /\ operation.requestBody[1].required
                /\ JsonContent(operation.requestBody[1]) # <<>>
             THEN {bodyPropName} ELSE {})

\* C13 as claimed: the input schema of every tool has a property under the
\* name of each parameter of its operation; its required list holds the
\* names the operation marks required and no other; and it has no required
\* field when there is no such name.
C13_AsClaimed ==
    Built =>
        \A k \in 1..Len(Ops) :
            LET operation == Ops[k].operation
                tool == mcpTools[k]
            IN  /\ \A j \in 1..Len(operation.parameters) :
                      operation.parameters[j].name \in PropertyNames(tool)
                /\ { RequiredOf(tool)[i] : i \in 1..Len(RequiredOf(tool)) }
                      = MarkedRequired(operation)
                /\ tool.inputSchema.required = <<>>
                      <=> MarkedRequired(operation) = {}

\* The JSON text of the values tried as requestBody, written out.
JsonText(value) ==
    IF value = Null THEN <<"n", "u", "l", "l">>
    ELSE <<"{", "\"", "n", "\"", ":", "\"", "a", "\"", "}">>

\* The operation an invocation resolves to declares a request body with an
\* application/json entry.
DeclaresJsonBody(c) ==
    /\ c.toolName \in DOMAIN Index
    /\ RequestBodyOf(c) # <<>>
    /\ ~RequestBodyOf(c)[1].ref
    /\ "application/json" \in DOMAIN RequestBodyOf(c)[1].content

\* C14: the request an invocation hands to fetch, when its operation
\* declares an application/json body, has the JSON text of the requestBody
\* argument as its body and application/json as its Content-Type when the
\* argument is supplied (null included), and has no body and no
\* Content-Type when it is not.
C14_JsonBodySent ==
    mainPc = "running" =>
        \A c \in Invocations :
            DeclaresJsonBody(c) /\ c.request # <<>> =>
                LET request == c.request[1]
                    contentTypes ==
                        { request.headers[j][2] :
                            j \in { j \in 1..Len(request.headers) :
                                      request.headers[j][1] = ContentTypeName } }
                IN  IF bodyPropName \in DOMAIN c.args
                    THEN /\ request.body = <<JsonText(c.args[bodyPropName])>>
                         /\ contentTypes = {ApplicationJson}
                    ELSE /\ request.body = <<>>
                         /\ contentTypes = {}

\* A request went out with the body {"n":"a"}, and its response came back.
C14_Witness ==
    \E c \in Invocations :
        /\ DeclaresJsonBody(c)
        /\ c.pc = "done"
        /\ c.status = 200
        /\ c.request[1].body = <<JsonText(Obj(<< <<<<"n">>, Str(<<"a">>)>> >>))>>

\* The identifiers the two derivations are compared on, optional: none,
\* the empty one, some with no word character, some with both kinds.
Identifiers ==
    { <<>>, << <<>> >>, << <<"-">> >>, << <<" ", "/">> >>,
      << <<"a", " ", "b">> >>, << <<"a", "_", "B", "9">> >>,
      << <<"{", "i", "}">> >> }

\* C15: the name of every tool of the list is the name the index recomputes
\* for the tool's operation, so that the index has an entry under it; and
\* the two derivations return the same name for the method and path of
\* every operation of the document under every identifier tried, the
\* absent one, the empty one and those with no word character included.
C15_NamesAgree ==
    operationMap # <<>> =>
        \A k \in 1..Len(Ops) :
            /\ mcpTools[k].name
                  = IndexToolName(Ops[k].method, Ops[k].path,
                                  Ops[k].operation.operationId)
            /\ mcpTools[k].name \in DOMAIN Index
            /\ \A id \in Identifiers :
                  generateToolName(Ops[k].method, Ops[k].path, id)
                    = IndexToolName(Ops[k].method, Ops[k].path, id)

\* The index is built for a document with an empty operationId and one that
\* has no word character: the tools are called post_q and _.
C15_Witness ==
    /\ operationMap # <<>>
    /\ \E k \in 1..Len(Ops) :
          /\ Ops[k].operation.operationId = << <<>> >>
          /\ mcpTools[k].name = <<"p", "o", "s", "t", "_", "q">>
    /\ \E k \in 1..Len(Ops) :
          /\ Ops[k].operation.operationId = << <<"-">> >>
          /\ mcpTools[k].name = <<"_">>
    /\ DOMAIN Index = { <<"p", "o", "s", "t", "_", "q">>, <<"_">> }

\* s starts with the words of prefix.
StartsWith(s, prefix) ==
    Len(s) >= Len(prefix) /\ SubSeq(s, 1, Len(prefix)) = prefix

\* C16 as claimed: the property a tool has for a parameter whose schema is
\* there and is no reference has the default of the parameter's schema
\* whenever that has one, whatever its value, and a description that starts
\* with the schema's, followed by the binary note when the schema is a
\* string of format byte or binary.
C16_AsClaimed ==
    Built =>
        \A k \in 1..Len(Ops) :
            \A j \in UniqueParams(Ops[k].operation) :
                LET param == Ops[k].operation.parameters[j]
                    source == param.schema[1]
                    prop == PropertyOf(mcpTools[k].inputSchema.properties,
                                       param.name)
                IN  param.schema # <<>> /\ ~source.ref =>
                        /\ prop.default = source.default
                        /\ StartsWith(prop.description, source.description)
                        /\ source.type = "string"
                              /\ source.format \in {"byte", "binary"}
                              => StartsWith(prop.description,
                                            source.description \o <<BinaryNote>>)

\* ---------------------------------------------------------------- outcome

\* The invocations that have not ended.
InFlight == { c \in Invocations : c.pc # "done" }

\* The invocation has ended with one outcome: a thrown McpError of one of
\* the three codes the handler throws, or a result with its error flag.
OneOutcome(c) ==
    /\ Len(c.outcome) = 1
    /\ \/ /\ c.outcome[1].kind = "error"
          /\ c.outcome[1].error[1].code
                \in {"MethodNotFound", "InvalidParams", "InternalError"}
       \/ /\ c.outcome[1].kind = "result"
          /\ c.outcome[1].error = <<>>
          /\ c.outcome[1].isError \in BOOLEAN

\* The invocation ended with a thrown error.
Failed(c) == c.pc = "done" /\ c.outcome[1].kind = "error"

\* C17: with the network call and the body read each returning or failing
\* in the end, an invocation in flight has no outcome yet and one that has
\* ended has exactly one, an McpError (MethodNotFound, InvalidParams,
\* InternalError) or a result with its error flag; an outcome once reached
\* stays as it is; whenever invocations are in flight, all of them end; and
\* they do so with a failed invocation beside them.
C17_EveryInvocationEnds ==
    /\ [](\A c \in Invocations :
            IF c.pc = "done" THEN OneOutcome(c) ELSE c.outcome = <<>>)
    /\ [][\A c \in Invocations :
            c.pc = "done" => CopiesIn(c, calls') >= CopiesIn(c, calls)]_vars
    /\ (InFlight # {} ~> InFlight = {})
    /\ ((InFlight # {} /\ \E c \in Invocations : Failed(c))
          ~> (InFlight = {} /\ \E c \in Invocations : Failed(c)))

\* One invocation has failed on the network, one has failed on its
\* arguments, and the result of a third one, or of one more of these, is in.
C17_Witness ==
    /\ InFlight = {}
    /\ \E c \in Invocations : Threw(c, "InternalError")
    /\ \E c \in Invocations : Threw(c, "InvalidParams")
    /\ BagCardinality(calls) = MaxCalls

\* The invocation was turned down for a parameter or a body it lacks.
ThrewAnyMissing(c) ==
    /\ Threw(c, "InvalidParams")
    /\ c.outcome[1].error[1].about
          \in {"Missing required parameter", "Missing required requestBody"}

\* C18 as claimed: an invocation of a published tool whose argument bag has
\* a value for every name of the tool's advertised required list is not
\* turned down for a missing parameter or a missing request body.
C18_AsClaimed ==
    mainPc = "running" =>
        \A c \in Invocations :
            /\ c.toolName \in DOMAIN Index
            /\ \A i \in 1..Len(RequiredOf(Index[c.toolName].toolDefinition)) :
                  RequiredOf(Index[c.toolName].toolDefinition)[i] \in DOMAIN c.args
            => ~ThrewAnyMissing(c)

\* The index of the document and the tool list a handler was created with.
OwnIndex(handler) ==
    buildOperationMap(handlers[handler].apiSpec, handlers[handler].tools)

\* C19 as claimed: an invocation resolves its tool name against the index
\* of the document and tool list its handler was created with: it ends
\* with MethodNotFound exactly when the name is no key of that index, and a
\* request it sends has the method and the path template of the entry
\* that index has under the name.
C19_AsClaimed ==
    \A c \in Invocations :
        /\ Threw(c, "MethodNotFound") <=> c.toolName \notin DOMAIN OwnIndex(c.handler)
        /\ c.request # <<>> =>
              /\ c.toolName \in DOMAIN OwnIndex(c.handler)
              /\ c.request[1].method
                    = toUpperCase(OwnIndex(c.handler)[c.toolName].method)

====
